---- MODULE Spec2Model ----
(***************************************************************************)
(* Model of atlast (src/main.rs): the texture atlas packer.                 *)
(*                                                                         *)
(* main() adds every png of a directory to an Atlas (add_image), packs     *)
(* them (pack, whose per-image scan is next_slot) and writes the atlas     *)
(* image and its metadata (write).  The model follows main's order:        *)
(* add_image*, pack, write.  The scan loop of next_slot is modelled one    *)
(* iteration per step, so that a scan which never ends is a behaviour of   *)
(* the model and not an undefined operator.                                *)
(***************************************************************************)
EXTENDS Integers, Sequences, FiniteSets, TLC

(* ------------------------------ bounds --------------------------------- *)
\* Largest number of images main adds.
MaxImages == 2
\* Largest width and largest height of a decoded image.
MaxDim == 4


\* The second family of inputs: up to MaxSame images that all have the
\* area SameArea (every pair of images is a tie of the sort).
SameArea == 6
MaxSame == 4

\* Rows below the placed rects that a scan which cannot end is followed for.
ExtraRows == 2

\* Bytes per pixel (RGBA, 8 bit per channel).
Channels == 4

VARIABLES
    images,      \* Atlas.images: sequence of [name, width, height]; the
                 \* field data of an image is ImageData of it
    records,     \* Atlas.records: sequence of Rect
    width,       \* Atlas.width
    pc,          \* position in main / pack / write
    pos,         \* the candidate Rect of the running next_slot
    out          \* what write left behind: file, png buffer, atlas records

vars == <<images, records, width, pc, pos, out>>

(* ------------------------------ Rect ----------------------------------- *)
Rect(x, y, w, h) == [x |-> x, y |-> y, width |-> w, height |-> h]

NoRect == Rect(0, 0, 0, 0)

\* Rect::contains_point
contains_point(self, x, y) ==
    /\ self.x <= x
    /\ self.y <= y
    /\ self.x + self.width >= x
    /\ self.y + self.height >= y

\* Rect::contains
contains(self, other) ==
    \/ contains_point(self, other.x, other.y)
    \/ contains_point(self, other.x + other.width, other.y)
    \/ contains_point(self, other.x, other.y + other.height)
    \/ contains_point(self, other.x + other.width, other.y + other.height)

(* ------------------------------ Image ---------------------------------- *)
\* Image.data, the bytes the decoder delivered for the image: width*height*4
\* bytes, each non-zero and telling its image (by name) and its offset.
ImageData(image) ==
    [i \in 1..(image.width * image.height * Channels) |->
        (((image.name - 1) * 64 + (i - 1)) % 255) + 1]

\* Image::area
area(img) == img.width * img.height

(* --------------------------- Atlas::pack ------------------------------- *)
\* pack without self.images.reverse(): the images stay in ascending order.
ReverseForgotten(s) == s

\* self.images.reverse()
Reverse(s) == [i \in 1..Len(s) |-> s[Len(s) + 1 - i]]

IndexPerms(n) ==
    {p \in [1..n -> 1..n] : \A i, j \in 1..n : i # j => p[i] # p[j]}

\* sort_unstable_by_key(|img| img.area()): some ordering of the images by
\* ascending area; the order of images of equal area is not determined.
sort_unstable_by_area(s) ==
    {[i \in 1..Len(s) |-> s[p[i]]] : p \in
        {q \in IndexPerms(Len(s)) :
            \A i, j \in 1..Len(s) : i < j => area(s[q[i]]) <= area(s[q[j]])}}

\* The loop condition of next_slot.
Colliding(recs, p, w) ==
    \/ \E i \in 1..Len(recs) : contains(recs[i], p)
    \/ p.x + p.height > w

\* The canvas rows in use: the largest y + height of the placed rects.
Bottom(recs) ==
    IF Len(recs) = 0 THEN 0
    ELSE CHOOSE m \in {recs[i].y + recs[i].height : i \in 1..Len(recs)} :
            \A i \in 1..Len(recs) : recs[i].y + recs[i].height <= m

\* The last row the scan of next_slot is followed to.  Below the placed
\* rects only the test pos.x + pos.height > self.width is left, and it is
\* the same on every row: a scan that is still colliding on every position
\* of row Bottom + 1 never ends.
YCap(recs) == Bottom(recs) + ExtraRows

\* next_slot moving on by two rows at the end of a row.
ScanNextSkipRow(p, w) ==
    IF p.x = w - 1
    THEN [p EXCEPT !.x = 0, !.y = p.y + 2]
    ELSE [p EXCEPT !.x = p.x + 1]

\* The loop body of next_slot.
ScanNext(p, w) ==
    IF p.x = w - 1
    THEN [p EXCEPT !.x = 0, !.y = p.y + 1]
    ELSE [p EXCEPT !.x = p.x + 1]

(* ------------------------------ state ---------------------------------- *)
NoOutput == [file |-> FALSE, entries |-> <<>>, png |-> <<>>,
             png_width |-> 0, png_height |-> 0,
             atlas_records |-> <<>>, stdout |-> <<>>]

Init ==
    /\ images = <<>>
    /\ records = <<>>
    /\ width = 0
    /\ pc = "add"
    /\ pos = NoRect
    /\ out = NoOutput

\* add_image taking the width of the last image for the canvas width.
max_width_last(cur, w) == w

\* if self.width < info.width { self.width = info.width; }
max_width(cur, w) == IF cur < w THEN w ELSE cur

\* Atlas::add_image for a png of w x h pixels; its name is its number in
\* the order of discovery.
add_image(w, h) ==
    /\ images' = Append(images,
            [name |-> Len(images) + 1, width |-> w, height |-> h])
    /\ width' = max_width(width, w)
    /\ UNCHANGED <<records, pc, pos, out>>

\* main adds the next png of the directory: any size up to MaxDim x MaxDim.
AddImage ==
    /\ pc = "add"
    /\ Len(images) < MaxImages
    /\ \E w \in 1..MaxDim, h \in 1..MaxDim : add_image(w, h)

\* main adds the next png of a directory whose images all have SameArea
\* pixels.
AddSameArea ==
    /\ pc = "add"
    /\ Len(images) < MaxSame
    /\ \E w \in 1..SameArea, h \in 1..SameArea :
        /\ w * h = SameArea
        /\ add_image(w, h)

\* Atlas::pack up to the first call of next_slot: sort, reverse, enter the loop.
PackBegin ==
    /\ pc = "add"
    /\ \E sorted \in sort_unstable_by_area(images) :
        /\ images' = Reverse(sorted)
        /\ IF Len(images) = 0
           THEN pc' = "packed" /\ pos' = pos
           ELSE /\ pc' = "scan"
                /\ pos' = Rect(0, 0, images'[1].width, images'[1].height)
    /\ UNCHANGED <<records, width, out>>

\* One iteration of the while loop of next_slot.
ScanStep ==
    /\ pc = "scan"
    /\ Colliding(records, pos, width)
    /\ pos.y < YCap(records)
    /\ pos' = ScanNext(pos, width)
    /\ UNCHANGED <<images, records, width, pc, out>>

\* next_slot returns pos, pack pushes it and goes on to the next image.
Place ==
    /\ pc = "scan"
    /\ ~Colliding(records, pos, width)
    /\ records' = Append(records, pos)
    /\ IF Len(records') = Len(images)
       THEN pc' = "packed" /\ pos' = pos
       ELSE /\ pc' = "scan"
            /\ pos' = Rect(0, 0, images[Len(records') + 1].width,
                                 images[Len(records') + 1].height)
    /\ UNCHANGED <<images, width, out>>

(* --------------------------- Atlas::write ------------------------------ *)
\* max of a non-empty set of naturals (Iterator::max)
Max(S) == CHOOSE m \in S : \A n \in S : n <= m

\* let height = self.records.iter().map(|rect| rect.y+rect.height).max().unwrap()
canvas_height(recs) == Max({recs[i].y + recs[i].height : i \in 1..Len(recs)})

\* let img_index = ((row * image.width + col) * 4) as usize
img_index(image, row, col) == (row * image.width + col) * Channels

\* let buf_index = (((row+rect.y) * width + (col+rect.x))*4) as usize
buf_index(rect, w, row, col) == ((row + rect.y) * w + (col + rect.x)) * Channels

\* The (row, col, pix) triples the copy loops of one image go through.
Cells(image) ==
    (0..(image.height - 1)) \X (0..(image.width - 1)) \X (0..(Channels - 1))

\* Some store png_buffer[buf_index+pix] = ... lies outside the buffer: the
\* indexing panics.
OutOfBounds(imgs, recs, w, size) ==
    \E i \in 1..Len(imgs) : \E c \in Cells(imgs[i]) :
        buf_index(recs[i], w, c[1], c[2]) + c[3] >= size

\* The (row, col) of the image whose store with pix = k % 4 goes to byte k
\* of the buffer: those with buf_index(rect, w, row, col) + pix = k.  For a
\* column col the row is determined, (k / 4 - col - rect.x) / w - rect.y.
Stores(image, rect, w, k) ==
    LET q == k \div Channels
    IN  {c \in {<<((q - col - rect.x) \div w) - rect.y, col>> :
                    col \in 0..(image.width - 1)} :
            /\ c[1] \in 0..(image.height - 1)
            /\ buf_index(rect, w, c[1], c[2]) + (k % Channels) = k}

\* The copy loops of one (image, rect) pair applied to the buffer: a byte
\* holds what the last store to it (rows outer, columns inner) put there.
Blit(buf, image, rect, w) ==
    [k \in DOMAIN buf |->
        LET hits == Stores(image, rect, w, k)
        IN  IF hits = {}
            THEN buf[k]
            ELSE LET c == CHOOSE c \in hits : \A d \in hits :
                            d[1] < c[1] \/ (d[1] = c[1] /\ d[2] <= c[2])
                 IN  ImageData(image)[img_index(image, c[1], c[2])
                                      + (k % Channels) + 1]]

\* for (image, rect) in self.images.iter().zip(self.records.iter()) { ... }
\* over the first n pairs, starting from vec![0; width * 4 * height].
RECURSIVE Composite(_, _, _, _, _)
Composite(imgs, recs, w, size, n) ==
    IF n = 0
    THEN [k \in 0..(size - 1) |-> 0]
    ELSE Blit(Composite(imgs, recs, w, size, n - 1), imgs[n], recs[n], w)

\* AtlasRecord: an f32 quotient a as f32 / b as f32 is kept as the pair
\* <<a, b>> of its operands.
MakeAtlasRecord(rect, image, w, h) ==
    [x      |-> <<rect.x, w>>,
     y      |-> <<rect.y, h>>,
     width  |-> <<rect.width, w>>,
     height |-> <<rect.height, h>>,
     name   |-> image.name]

\* write without its early return.
NothingToWriteNever(imgs) == FALSE

\* The early return of write.
NothingToWrite(imgs) == Len(imgs) = 0

\* Atlas::write, called by main after pack has returned.  A panic (max()
\* of no records unwrapped, a store outside png_buffer) comes after
\* File::create and start_file("atlas.png").
Write ==
    /\ pc = "packed"
    /\ IF NothingToWrite(images)
       THEN /\ out' = [out EXCEPT !.stdout = Append(@, "No images in directory")]
            /\ pc' = "done"
       ELSE IF Len(records) = 0
       THEN /\ out' = [out EXCEPT !.file = TRUE, !.entries = <<"atlas.png">>]
            /\ pc' = "panic"
       ELSE LET h    == canvas_height(records)
                size == width * Channels * h
            IN  IF OutOfBounds(images, records, width, size)
                THEN /\ out' = [out EXCEPT !.file = TRUE,
                                           !.entries = <<"atlas.png">>]
                     /\ pc' = "panic"
                ELSE /\ out' = [out EXCEPT
                            !.file = TRUE,
                            !.entries = <<"atlas.png", "atlas.data">>,
                            !.png = Composite(images, records, width, size,
                                              Len(images)),
                            !.png_width = width,
                            !.png_height = h,
                            !.atlas_records =
                                [i \in 1..Len(records) |->
                                    MakeAtlasRecord(records[i], images[i],
                                                    width, h)]]
                     /\ pc' = "done"
    /\ UNCHANGED <<images, records, width, pos>>

Next == AddImage \/ PackBegin \/ ScanStep \/ Place \/ Write

\* main on a directory of images of any sizes.
Spec == Init /\ [][Next]_vars

NextSameArea == AddSameArea \/ PackBegin \/ ScanStep \/ Place \/ Write

\* main on a directory of images of one area.
SpecSameArea == Init /\ [][NextSameArea]_vars

(* ============================== claims ================================= *)
\* pack has returned.
Packed == pc \in {"packed", "done", "panic"}

\* write has composited the buffer and built the atlas records.
Written == pc = "done" /\ Len(images) > 0

\* Byte pix of the canvas pixel (px, py) of the composited buffer; -1 where
\* the canvas has no such pixel.
CanvasByte(px, py, pix) ==
    IF px < out.png_width /\ py < out.png_height
    THEN out.png[(py * out.png_width + px) * Channels + pix]
    ELSE -1

\* The pixel (px, py) lies in the rectangle of the placement.
Covers(rect, px, py) ==
    /\ rect.x <= px /\ px < rect.x + rect.width
    /\ rect.y <= py /\ py < rect.y + rect.height

\* C1: after pack, for every two distinct placements, no corner of the one
\* lies within the closed bounding box of the other.
C1_NoCornerInOther ==
    Packed => \A i, j \in 1..Len(records) :
                i # j => ~contains(records[i], records[j])

\* C2: after pack, every placement lies horizontally within the canvas:
\* rect.x + rect.width <= canvas width.
C2_WithinCanvasWidth ==
    Packed => \A i \in 1..Len(records) :
                records[i].x + records[i].width <= width

\* C3: in the composited buffer every source pixel is found, all four
\* channels unchanged, at (rect.x + col, rect.y + row), and every canvas
\* pixel in no placement's rectangle is zero.
C3_PixelFidelity ==
    Written =>
        /\ \A i \in 1..Len(images) : \A c \in Cells(images[i]) :
              CanvasByte(records[i].x + c[2], records[i].y + c[1], c[3])
                = ImageData(images[i])[img_index(images[i], c[1], c[2])
                                        + c[3] + 1]
        /\ \A px \in 0..(out.png_width - 1), py \in 0..(out.png_height - 1) :
              (\A i \in 1..Len(records) : ~Covers(records[i], px, py))
                => \A pix \in 0..(Channels - 1) : CanvasByte(px, py, pix) = 0

\* The placement sequence and the AtlasRecord sequence follow the sequence
\* of the images.
SameOrder ==
    /\ Packed => /\ Len(records) = Len(images)
                 /\ \A i \in 1..Len(images) :
                       /\ records[i].width = images[i].width
                       /\ records[i].height = images[i].height
    /\ Written => /\ Len(out.atlas_records) = Len(images)
                  /\ \A i \in 1..Len(images) :
                       /\ out.atlas_records[i].name = images[i].name
                       /\ out.atlas_records[i].x[1] = records[i].x
                       /\ out.atlas_records[i].y[1] = records[i].y
                       /\ out.atlas_records[i].width[1] = records[i].width
                       /\ out.atlas_records[i].height[1] = records[i].height

\* C4 as claimed: pack processes the images by descending area, images of
\* equal area in the order they were added (names count the adds); the
\* placements and the atlas records are in that order.
C4_StableDescendingOrder ==
    /\ Packed => \A i, j \in 1..Len(images) : i < j =>
                    \/ area(images[i]) > area(images[j])
                    \/ /\ area(images[i]) = area(images[j])
                       /\ images[i].name < images[j].name
    /\ SameOrder

\* C4 as amended: pack processes all the added images by descending area
\* (images of equal area in no particular order); the placements and the
\* atlas records are in the order of processing.
C4_DescendingOrder ==
    /\ Packed => /\ \A i, j \in 1..Len(images) : i < j =>
                       area(images[i]) >= area(images[j])
                 /\ {images[i].name : i \in 1..Len(images)} = 1..Len(images)
    /\ SameOrder

\* Images added in ascending order of area have been packed and written.
C4_Witness ==
    /\ Written
    /\ \E i, j \in 1..Len(images) :
          i < j /\ images[i].name > images[j].name
                /\ area(images[i]) > area(images[j])

\* C5: while next_slot scans for an image, some position of the scan order
\* is not colliding: the scan ends and the image is placed.
C5_ScanCanEnd ==
    pc = "scan" =>
        \E x \in 0..(width - 1), y \in 0..YCap(records) :
            ~Colliding(records, [pos EXCEPT !.x = x, !.y = y], width)

\* C6: every destination index write computes is less than the length
\* width * height * 4 of the buffer.
C6_NoOutOfBoundsWrite ==
    (Packed /\ Len(records) > 0) =>
        ~OutOfBounds(images, records, width,
                     width * Channels * canvas_height(records))

\* The quotient a / b kept in q lies in [0, 1].
InUnitRange(q) == q[2] > 0 /\ 0 <= q[1] /\ q[1] <= q[2]

\* C7: every spatial field of every AtlasRecord lies in [0, 1].
C7_NormalizedInUnitRange ==
    \A i \in 1..Len(out.atlas_records) :
        /\ InUnitRange(out.atlas_records[i].x)
        /\ InUnitRange(out.atlas_records[i].y)
        /\ InUnitRange(out.atlas_records[i].width)
        /\ InUnitRange(out.atlas_records[i].height)

\* Records have been written for a placement away from the origin.
C7_Witness ==
    /\ Written
    /\ \E i \in 1..Len(out.atlas_records) :
          out.atlas_records[i].x[1] + out.atlas_records[i].y[1] > 0

\* C8: with no image added, pack and write end successfully and leave no
\* file, no archive entry, no placement, no buffer and no metadata, only
\* the notice.
C8_EmptyRunIsNoOp ==
    (Len(images) = 0 /\ pc \in {"packed", "done", "panic"}) =>
        /\ pc # "panic"
        /\ records = <<>>
        /\ out.file = FALSE
        /\ out.entries = <<>>
        /\ out.png = <<>>
        /\ out.atlas_records = <<>>
        /\ pc = "done" => out.stdout = <<"No images in directory">>

\* The run without images has ended.
C8_Witness == Len(images) = 0 /\ pc = "done"

\* C9: every position next_slot returned is the first non-colliding one of
\* the scan order (rows from 0, x = 0 .. canvas width - 1 within a row),
\* colliding against the rects placed before it; the first is (0, 0).
C9_FirstFreeInScanOrder ==
    \A i \in 1..Len(records) :
        LET r     == records[i]
            prior == SubSeq(records, 1, i - 1)
        IN  /\ r.x \in 0..(width - 1)
            /\ ~Colliding(prior, r, width)
            /\ \A y \in 0..r.y, x \in 0..(width - 1) :
                  (y < r.y \/ x < r.x)
                    => Colliding(prior, [r EXCEPT !.x = x, !.y = y], width)
            /\ i = 1 => (r.x = 0 /\ r.y = 0)

\* An image has been placed below the first row.
C9_Witness == Packed /\ \E i \in 1..Len(records) : records[i].y > 0

\* C10: after pack the pixel regions of any two distinct placements are
\* disjoint.
C10_DisjointRegions ==
    Packed => \A i, j \in 1..Len(records) : i # j =>
        ~(/\ records[i].x < records[j].x + records[j].width
          /\ records[j].x < records[i].x + records[i].width
          /\ records[i].y < records[j].y + records[j].height
          /\ records[j].y < records[i].y + records[i].height)
====
